---- MODULE Spec2Model ----
(***************************************************************************)
(* Power / wakeup coordination of the i.MX8MP DWC3 glue layer              *)
(* (drivers/usb/dwc3/dwc3-imx8mp.c).                                       *)
(*                                                                         *)
(* Two execution contexts are modelled:                                    *)
(*   - the PM context, which runs one of the four dev_pm_ops callbacks at  *)
(*     a time (system sleep: pm_suspend / pm_resume, runtime PM:           *)
(*     runtime_suspend / runtime_resume), step by step;                    *)
(*   - the threaded interrupt handler dwc3_imx8mp_interrupt, which runs    *)
(*     whenever the level-triggered wakeup line is asserted and may        *)
(*     interleave with the PM context at every shared-memory access.       *)
(* dwc3_imx8mp_probe is modelled on its own (SpecProbe), statement by       *)
(* statement, with every fallible kernel call returning success or failure.*)
(* The wakeup control register is a set of bit positions: `|` is \cup,     *)
(* `& ~m` is set difference.  readl and writel are separate steps.         *)
(***************************************************************************)
EXTENDS Integers, FiniteSets, Sequences, TLC

VARIABLES
    pm_suspended,     \* dwc3_imx8mp.pm_suspended
    bus_clk,          \* enable count of dwc3_imx8mp.bus_clk
    sleep_clk,        \* enable count of dwc3_imx8mp.sleep_clk
    irq_wake,         \* wake depth of dwc3_imx8mp.irq (enable_irq_wake)
    reg,              \* USB_WAKEUP_CTRL, as the set of bits that are 1
    irq_line,         \* the wakeup interrupt line is asserted
    hw_events,        \* number of physical wakeup events raised so far
    current_dr_role,  \* dwc->current_dr_role of the child controller
    xhci,             \* dwc->xhci is non-NULL
    autosuspend,      \* the child's runtime-PM autosuspend policy is in use
    may_wakeup,       \* device_may_wakeup(dwc_imx->dev)
    sys_sleeping,     \* a system sleep is in progress (pm_suspend .. pm_resume)
    pm_pc,            \* position of the PM context
    pm_op,            \* callback the PM context runs / ran last
    pm_val,           \* local `val` of the register helper run by the PM context
    pm_ret,           \* return value of the last callback
    pm_path,          \* "noop": the core call returned early; "full": it did not
    pm_reg0,          \* register image when the running callback was entered
    pm_irq0,          \* the handler was idle when the running callback was entered
    retry,            \* the running callback repeats a resume that returned an error
    irq_pc,           \* position of the interrupt handler
    irq_val,          \* local `val` of dwc_imx8mp_wakeup_disable in the handler
    irq_ret,          \* return value of the last handler run
    resume_reqs,      \* number of pm_runtime_resume() requests issued so far
    resume_target,    \* device the last pm_runtime_resume() was issued for
    resume_pending,   \* a requested resume has not been started yet
    probe_pc,         \* position of dwc3_imx8mp_probe
    error,            \* local `error` of dwc3_imx8mp_probe
    probe_ret,        \* value dwc3_imx8mp_probe returned
    populated,        \* of_platform_populate has created the child devices
    set_role_post_installed,  \* dwc->priv_data->set_role_post is set
    rpm_enabled,      \* pm_runtime_enable(dev) has been called
    clk0              \* enable counts <<bus, sleep>> when probe was entered

glue  == <<pm_suspended, bus_clk, sleep_clk, irq_wake>>
hw    == <<reg, irq_line, hw_events>>
child == <<current_dr_role, xhci, autosuspend>>
env   == <<may_wakeup, sys_sleeping>>
pmv   == <<pm_pc, pm_op, pm_val, pm_ret, pm_path, pm_reg0, pm_irq0, retry>>
irqv  == <<irq_pc, irq_val, irq_ret>>
reqv  == <<resume_reqs, resume_target, resume_pending>>
probev == <<probe_pc, error, probe_ret, populated, set_role_post_installed,
            rpm_enabled, clk0>>
vars  == <<glue, hw, child, env, pmv, irqv, reqv, probev>>

(***************************************************************************)
(* Bounds of the model.                                                    *)
(***************************************************************************)
MaxEvents == 2      \* physical wakeup events raised in one behaviour

(***************************************************************************)
(* Register layout.                                                        *)
(***************************************************************************)
USB_WAKEUP_EN                == {31}
USB_WAKEUP_SS_CONN           == {5}
USB_WAKEUP_VBUS_SRC_SESS_VAL == {4}
USB_WAKEUP_U3_EN             == {3}
USB_WAKEUP_ID_EN             == {2}
USB_WAKEUP_VBUS_EN           == {1}
USB_WAKEUP_DPDM_EN           == {0}
USB_WAKEUP_EN_MASK           == 0..5
\* one of the bits 6..30, which no helper names
RsvdBit                      == {8}

\* the fully quiescent part of an image: global enable and the six source bits
WakeBits == USB_WAKEUP_EN \cup USB_WAKEUP_EN_MASK
RegBits  == WakeBits \cup RsvdBit

DWC3_GCTL_PRTCAP_HOST   == "HOST"
DWC3_GCTL_PRTCAP_DEVICE == "DEVICE"
PRTCAP_NONE             == "NONE"
Roles == {DWC3_GCTL_PRTCAP_HOST, DWC3_GCTL_PRTCAP_DEVICE, PRTCAP_NONE}

IRQ_HANDLED == "IRQ_HANDLED"

\* return values of clk_prepare_enable: 0, or a negative errno
ClkResults == {0, -5}

SuspendOps == {"pm_suspend", "runtime_suspend"}
ResumeOps  == {"pm_resume", "runtime_resume"}

\* the pm_message_t each callback passes down
pm_msg(op) ==
    CASE op = "pm_suspend"      -> "PMSG_SUSPEND"
      [] op = "pm_resume"       -> "PMSG_RESUME"
      [] op = "runtime_suspend" -> "PMSG_AUTO_SUSPEND"
      [] op = "runtime_resume"  -> "PMSG_AUTO_RESUME"
      [] OTHER                  -> "PMSG_ON"

PMSG_IS_AUTO(msg) == msg \in {"PMSG_AUTO_SUSPEND", "PMSG_AUTO_RESUME"}

(***************************************************************************)
(* WakeupSourceConfigurator: the values the two helpers write.             *)
(***************************************************************************)
\* dwc_imx8mp_wakeup_enable, lines 57-62: val as modified before writel
wakeup_enable_val(val, role, host) ==
    IF host
    THEN val \cup USB_WAKEUP_EN \cup USB_WAKEUP_SS_CONN
             \cup USB_WAKEUP_U3_EN \cup USB_WAKEUP_DPDM_EN
    ELSE IF role = DWC3_GCTL_PRTCAP_DEVICE
    THEN val \cup USB_WAKEUP_EN \cup USB_WAKEUP_VBUS_EN
             \cup USB_WAKEUP_VBUS_SRC_SESS_VAL
    ELSE val

\* variant of the disable mask that stops short of bit 5 (GENMASK(4, 0))
wakeup_disable_val_mask_4_0(val) == val \ (USB_WAKEUP_EN \cup (0..4))

\* variant of the disable mask that forgets the global enable bit
wakeup_disable_val_keeps_en(val) == val \ USB_WAKEUP_EN_MASK

\* variant of the disarm that clears the global enable only
wakeup_disable_val_en_only(val) ==
    val \ USB_WAKEUP_EN

\* dwc_imx8mp_wakeup_disable, line 72
wakeup_disable_val(val) == val \ (USB_WAKEUP_EN \cup USB_WAKEUP_EN_MASK)

\* writel to USB_WAKEUP_CTRL: the global enable bit doubles as interrupt
\* clear, so a write with that bit 0 de-asserts the line
writel(val) ==
    /\ reg' = val
    /\ irq_line' = (irq_line /\ USB_WAKEUP_EN \subseteq val)

\* clk_disable_unprepare: drops one enable; on a clock that is already off
\* the clock framework warns and leaves the count at 0
clk_disable_unprepare(cnt) == IF cnt > 0 THEN cnt - 1 ELSE 0

\* clk_prepare_enable with result r
clk_prepare_enable(cnt, r) == IF r = 0 THEN cnt + 1 ELSE cnt

\* variant of the hook with the two pm_runtime calls swapped
set_role_post_swapped(policy, role) ==
    CASE role = DWC3_GCTL_PRTCAP_HOST   -> TRUE
      [] role = DWC3_GCTL_PRTCAP_DEVICE -> FALSE
      [] OTHER                          -> policy

\* dwc3_imx8mp_set_role_post: the autosuspend policy after a role change
set_role_post(policy, role) ==
    CASE role = DWC3_GCTL_PRTCAP_HOST   -> FALSE
      [] role = DWC3_GCTL_PRTCAP_DEVICE -> TRUE
      [] OTHER                          -> policy

(***************************************************************************)
(* Initial state: probe has returned 0.  Both clocks are on, the glue is   *)
(* active, the device is wakeup capable (device_init_wakeup(dev, 1)), the  *)
(* register is quiescent.  The child exists already when the role hook is  *)
(* installed, so it has whatever role the core set up, with a host child   *)
(* if that role is Host; no notification has been delivered yet.           *)
(***************************************************************************)
Init ==
    /\ pm_suspended = FALSE
    /\ bus_clk = 1
    /\ sleep_clk = 1
    /\ irq_wake = 0
    /\ reg = {}
    /\ irq_line = FALSE
    /\ hw_events = 0
    /\ current_dr_role \in Roles
    /\ xhci = (current_dr_role = DWC3_GCTL_PRTCAP_HOST)
    /\ autosuspend = TRUE
    /\ may_wakeup = TRUE
    /\ sys_sleeping = FALSE
    /\ pm_pc = "idle"
    /\ pm_op = "none"
    /\ pm_val = {}
    /\ pm_ret = 0
    /\ pm_path = "none"
    /\ pm_reg0 = {}
    /\ pm_irq0 = FALSE
    /\ retry = FALSE
    /\ irq_pc = "idle"
    /\ irq_val = {}
    /\ irq_ret = "none"
    /\ resume_reqs = 0
    /\ resume_target = "none"
    /\ resume_pending = FALSE
    /\ probe_pc = "done"
    /\ error = 0
    /\ probe_ret = 0
    /\ populated = TRUE
    /\ set_role_post_installed = TRUE
    /\ rpm_enabled = TRUE
    /\ clk0 = <<0, 0>>

(***************************************************************************)
(* PM context: callback entry and return.                                  *)
(***************************************************************************)
\* a callback is entered: remember what it found
PmEnter(op, pc) ==
    /\ pm_pc = "idle"
    /\ pm_pc' = pc
    /\ pm_op' = op
    /\ pm_val' = {}
    /\ pm_ret' = pm_ret
    /\ pm_path' = "none"
    /\ pm_reg0' = reg
    /\ pm_irq0' = (irq_pc = "idle")
    /\ retry' = (op \in ResumeOps /\ pm_op \in ResumeOps /\ pm_ret # 0)

\* the running callback returns ret to the PM core; dwc3_imx8mp_pm_resume
\* ends the system sleep
PmReturn(ret) ==
    /\ pm_pc' = "idle"
    /\ pm_op' = pm_op
    /\ pm_val' = {}
    /\ pm_ret' = ret
    /\ UNCHANGED <<pm_reg0, pm_irq0, retry>>
    /\ sys_sleeping' = IF pm_op = "pm_resume" THEN FALSE ELSE sys_sleeping
    /\ may_wakeup' = may_wakeup

PmGoto(pc) ==
    /\ pm_pc' = pc
    /\ UNCHANGED <<pm_op, pm_val, pm_ret, pm_reg0, pm_irq0, retry>>

\* variant of the system-sleep suspend that arms the line unconditionally
dwc3_imx8mp_pm_suspend_always_wake ==
    /\ ~sys_sleeping
    /\ PmEnter("pm_suspend", "susp_check")
    /\ sys_sleeping' = TRUE
    /\ irq_wake' = irq_wake + 1
    /\ UNCHANGED <<pm_suspended, bus_clk, sleep_clk, hw, child, may_wakeup, irqv, reqv>>
    /\ UNCHANGED probev

\* dwc3_imx8mp_pm_suspend, lines 283-286
dwc3_imx8mp_pm_suspend ==
    /\ ~sys_sleeping
    /\ PmEnter("pm_suspend", "susp_check")
    /\ sys_sleeping' = TRUE
    /\ irq_wake' = IF may_wakeup THEN irq_wake + 1 ELSE irq_wake
    /\ UNCHANGED <<pm_suspended, bus_clk, sleep_clk, hw, child, may_wakeup, irqv, reqv>>
    /\ UNCHANGED probev

\* dwc3_imx8mp_pm_resume, lines 294-297
dwc3_imx8mp_pm_resume ==
    /\ sys_sleeping
    /\ PmEnter("pm_resume", "res_check")
    /\ irq_wake' = IF may_wakeup /\ irq_wake > 0 THEN irq_wake - 1 ELSE irq_wake
    /\ resume_pending' = FALSE
    /\ UNCHANGED <<pm_suspended, bus_clk, sleep_clk, hw, child, env, irqv,
                   resume_reqs, resume_target>>
    /\ UNCHANGED probev

\* the PM core attempts an autonomous idle suspend only while the
\* autosuspend policy is in use
rpm_idle_suspend_allowed == autosuspend

\* dwc3_imx8mp_runtime_suspend, lines 308-312
dwc3_imx8mp_runtime_suspend ==
    /\ rpm_idle_suspend_allowed
    /\ PmEnter("runtime_suspend", "susp_check")
    /\ UNCHANGED <<glue, hw, child, env, irqv, reqv>>
    /\ UNCHANGED probev

\* dwc3_imx8mp_runtime_resume
dwc3_imx8mp_runtime_resume ==
    /\ PmEnter("runtime_resume", "res_check")
    /\ resume_pending' = FALSE
    /\ UNCHANGED <<glue, hw, child, env, irqv, resume_reqs, resume_target>>
    /\ UNCHANGED probev

(***************************************************************************)
(* dwc3_imx8mp_suspend, step by step.                                      *)
(***************************************************************************)
\* variant of the entry check that does not test pm_suspended
suspend_check_always ==
    /\ pm_pc = "susp_check"
    /\ PmGoto(IF PMSG_IS_AUTO(pm_msg(pm_op)) \/ may_wakeup
              THEN "arm_read" ELSE "susp_clk")
    /\ pm_path' = "full"
    /\ UNCHANGED <<glue, hw, child, env, irqv, reqv>>
    /\ UNCHANGED probev

\* variant of the wakeup test that looks at the wake capability only
suspend_check_wake_only ==
    /\ pm_pc = "susp_check"
    /\ IF pm_suspended
       THEN /\ PmReturn(0)
            /\ pm_path' = "noop"
       ELSE /\ PmGoto(IF may_wakeup THEN "arm_read" ELSE "susp_clk")
            /\ pm_path' = "full"
            /\ UNCHANGED env
    /\ UNCHANGED <<glue, hw, child, irqv, reqv>>
    /\ UNCHANGED probev

\* lines 250-254
suspend_check ==
    /\ pm_pc = "susp_check"
    /\ IF pm_suspended
       THEN /\ PmReturn(0)
            /\ pm_path' = "noop"
       ELSE /\ PmGoto(IF PMSG_IS_AUTO(pm_msg(pm_op)) \/ may_wakeup
                      THEN "arm_read" ELSE "susp_clk")
            /\ pm_path' = "full"
            /\ UNCHANGED env
    /\ UNCHANGED <<glue, hw, child, irqv, reqv>>
    /\ UNCHANGED probev

\* line 55
wakeup_enable_readl ==
    /\ pm_pc = "arm_read"
    /\ pm_pc' = "arm_write"
    /\ pm_val' = reg
    /\ UNCHANGED <<pm_op, pm_ret, pm_path, pm_reg0, pm_irq0, retry>>
    /\ UNCHANGED <<glue, hw, child, env, irqv, reqv>>
    /\ UNCHANGED probev

\* lines 57-64
wakeup_enable_writel ==
    /\ pm_pc = "arm_write"
    /\ writel(wakeup_enable_val(pm_val, current_dr_role, xhci))
    /\ pm_pc' = "susp_clk"
    /\ pm_val' = {}
    /\ UNCHANGED <<pm_op, pm_ret, pm_path, pm_reg0, pm_irq0, retry>>
    /\ UNCHANGED <<glue, hw_events, child, env, irqv, reqv>>
    /\ UNCHANGED probev

\* line 257
suspend_clk ==
    /\ pm_pc = "susp_clk"
    /\ bus_clk' = clk_disable_unprepare(bus_clk)
    /\ PmGoto("susp_flag")
    /\ UNCHANGED pm_path
    /\ UNCHANGED <<pm_suspended, sleep_clk, irq_wake, hw, child, env, irqv, reqv>>
    /\ UNCHANGED probev

\* lines 258-260
suspend_flag ==
    /\ pm_pc = "susp_flag"
    /\ pm_suspended' = TRUE
    /\ PmReturn(0)
    /\ UNCHANGED pm_path
    /\ UNCHANGED <<bus_clk, sleep_clk, irq_wake, hw, child, irqv, reqv>>
    /\ UNCHANGED probev

(***************************************************************************)
(* dwc3_imx8mp_resume, step by step.                                       *)
(***************************************************************************)
\* variant of the entry check that does not test pm_suspended
resume_check_always ==
    /\ pm_pc = "res_check"
    /\ pm_suspended' = FALSE
    /\ PmGoto("res_clk")
    /\ pm_path' = "full"
    /\ UNCHANGED <<bus_clk, sleep_clk, irq_wake, hw, child, env, irqv, reqv>>
    /\ UNCHANGED probev

\* variant of the resume check that leaves the flag set
resume_check_keeps_flag ==
    /\ pm_pc = "res_check"
    /\ IF ~pm_suspended
       THEN /\ PmReturn(0)
            /\ pm_path' = "noop"
       ELSE /\ PmGoto("res_clk")
            /\ pm_path' = "full"
            /\ UNCHANGED env
    /\ UNCHANGED <<glue, hw, child, irqv, reqv>>
    /\ UNCHANGED probev

\* lines 267-270
resume_check ==
    /\ pm_pc = "res_check"
    /\ IF ~pm_suspended
       THEN /\ PmReturn(0)
            /\ pm_path' = "noop"
            /\ UNCHANGED pm_suspended
       ELSE /\ pm_suspended' = FALSE
            /\ PmGoto("res_clk")
            /\ pm_path' = "full"
            /\ UNCHANGED env
    /\ UNCHANGED <<bus_clk, sleep_clk, irq_wake, hw, child, irqv, reqv>>
    /\ UNCHANGED probev

\* variant of the clock step that drops the result of clk_prepare_enable
resume_clk_ignores_error(r) ==
    /\ pm_pc = "res_clk"
    /\ bus_clk' = clk_prepare_enable(bus_clk, r)
    /\ pm_ret' = 0
    /\ pm_pc' = "dis_read"
    /\ UNCHANGED <<pm_op, pm_val, pm_path, pm_reg0, pm_irq0, retry>>
    /\ UNCHANGED <<pm_suspended, sleep_clk, irq_wake, hw, child, env, irqv, reqv>>
    /\ UNCHANGED probev

\* line 271, clk_prepare_enable returning r
resume_clk(r) ==
    /\ pm_pc = "res_clk"
    /\ bus_clk' = clk_prepare_enable(bus_clk, r)
    /\ pm_ret' = r
    /\ pm_pc' = "dis_read"
    /\ UNCHANGED <<pm_op, pm_val, pm_path, pm_reg0, pm_irq0, retry>>
    /\ UNCHANGED <<pm_suspended, sleep_clk, irq_wake, hw, child, env, irqv, reqv>>
    /\ UNCHANGED probev

\* line 71, called from line 274
resume_disable_readl ==
    /\ pm_pc = "dis_read"
    /\ pm_pc' = "dis_write"
    /\ pm_val' = reg
    /\ UNCHANGED <<pm_op, pm_ret, pm_path, pm_reg0, pm_irq0, retry>>
    /\ UNCHANGED <<glue, hw, child, env, irqv, reqv>>
    /\ UNCHANGED probev

\* lines 72-73, then line 276 (and 299-303 for the system-sleep callback)
resume_disable_writel ==
    /\ pm_pc = "dis_write"
    /\ writel(wakeup_disable_val(pm_val))
    /\ PmReturn(pm_ret)
    /\ UNCHANGED pm_path
    /\ UNCHANGED <<glue, hw_events, child, irqv, reqv>>
    /\ UNCHANGED probev

(***************************************************************************)
(* Interrupt handler dwc3_imx8mp_interrupt, step by step.                  *)
(***************************************************************************)
\* a physical wakeup condition occurs while wakeup detection is enabled
HwWakeEvent ==
    /\ hw_events < MaxEvents
    /\ USB_WAKEUP_EN \subseteq reg
    /\ reg \cap USB_WAKEUP_EN_MASK # {}
    /\ ~irq_line
    /\ irq_line' = TRUE
    /\ hw_events' = hw_events + 1
    /\ UNCHANGED <<glue, reg, child, env, pmv, irqv, reqv>>
    /\ UNCHANGED probev

\* the line is asserted: the (oneshot) handler thread is started
irq_entry ==
    /\ irq_pc = "idle"
    /\ irq_line
    /\ irq_pc' = "irq_check"
    /\ irq_ret' = "none"
    /\ UNCHANGED <<irq_val, glue, hw, child, env, pmv, reqv>>
    /\ UNCHANGED probev

\* variant of the handler that does not test pm_suspended
irq_check_always ==
    /\ irq_pc = "irq_check"
    /\ irq_pc' = "irq_dis_read"
    /\ UNCHANGED <<irq_val, irq_ret, glue, hw, child, env, pmv, reqv>>
    /\ UNCHANGED probev

\* variant of the handler with the test of pm_suspended inverted
irq_check_inverted ==
    /\ irq_pc = "irq_check"
    /\ IF pm_suspended
       THEN /\ irq_pc' = "idle"
            /\ irq_ret' = IRQ_HANDLED
       ELSE /\ irq_pc' = "irq_dis_read"
            /\ irq_ret' = irq_ret
    /\ UNCHANGED <<irq_val, glue, hw, child, env, pmv, reqv>>
    /\ UNCHANGED probev

\* lines 81-82
irq_check ==
    /\ irq_pc = "irq_check"
    /\ IF ~pm_suspended
       THEN /\ irq_pc' = "idle"
            /\ irq_ret' = IRQ_HANDLED
       ELSE /\ irq_pc' = "irq_dis_read"
            /\ irq_ret' = irq_ret
    /\ UNCHANGED <<irq_val, glue, hw, child, env, pmv, reqv>>
    /\ UNCHANGED probev

\* line 71, called from line 85
irq_disable_readl ==
    /\ irq_pc = "irq_dis_read"
    /\ irq_val' = reg
    /\ irq_pc' = "irq_dis_write"
    /\ UNCHANGED <<irq_ret, glue, hw, child, env, pmv, reqv>>
    /\ UNCHANGED probev

\* lines 72-73
irq_disable_writel ==
    /\ irq_pc = "irq_dis_write"
    /\ writel(wakeup_disable_val(irq_val))
    /\ irq_val' = {}
    /\ irq_pc' = "irq_resume"
    /\ UNCHANGED <<irq_ret, glue, hw_events, child, env, pmv, reqv>>
    /\ UNCHANGED probev

\* variant of the role match that only knows the host child
irq_resume_target_host_only(role, host) ==
    IF role = DWC3_GCTL_PRTCAP_HOST /\ host THEN "xhci" ELSE "none"

\* variant of the role match that does not test for the host child
irq_resume_target_ignores_child(role, host) ==
    IF role = DWC3_GCTL_PRTCAP_HOST THEN "xhci"
    ELSE IF role = DWC3_GCTL_PRTCAP_DEVICE THEN "gadget"
    ELSE "none"

\* lines 91-94: the device pm_runtime_resume is called for, if any
irq_resume_target(role, host) ==
    IF role = DWC3_GCTL_PRTCAP_HOST /\ host THEN "xhci"
    ELSE IF role = DWC3_GCTL_PRTCAP_DEVICE THEN "gadget"
    ELSE "none"

\* lines 91-96
irq_resume ==
    /\ irq_pc = "irq_resume"
    /\ LET t == irq_resume_target(current_dr_role, xhci) IN
         IF t = "none"
         THEN UNCHANGED reqv
         ELSE /\ resume_reqs' = resume_reqs + 1
              /\ resume_target' = t
              /\ resume_pending' = TRUE
    /\ irq_pc' = "idle"
    /\ irq_ret' = IRQ_HANDLED
    /\ UNCHANGED <<irq_val, glue, hw, child, env, pmv>>
    /\ UNCHANGED probev

(***************************************************************************)
(* Environment.                                                            *)
(***************************************************************************)
\* the child completes a role switch (which it does with the glue active)
\* and calls the hook dwc3_imx8mp_set_role_post.  The host child pointer is
\* the core's: it may still be set after Host was left, and may not be set
\* yet when Host is entered.
RoleSwitch(role, host) ==
    /\ pm_pc = "idle"
    /\ ~pm_suspended
    /\ ~sys_sleeping
    /\ current_dr_role' = role
    /\ xhci' = host
    /\ autosuspend' = set_role_post(autosuspend, role)
    /\ UNCHANGED <<glue, hw, env, pmv, irqv, reqv>>
    /\ UNCHANGED probev

\* user space flips power/wakeup (it is frozen during a system sleep)
SetWakeup ==
    /\ pm_pc = "idle"
    /\ ~sys_sleeping
    /\ may_wakeup' = ~may_wakeup
    /\ UNCHANGED <<glue, hw, child, sys_sleeping, pmv, irqv, reqv>>
    /\ UNCHANGED probev

PmStep ==
    \/ suspend_check
    \/ wakeup_enable_readl
    \/ wakeup_enable_writel
    \/ suspend_clk
    \/ suspend_flag
    \/ resume_check
    \/ resume_disable_readl
    \/ resume_disable_writel

IrqStep ==
    \/ irq_entry
    \/ irq_check
    \/ irq_disable_readl
    \/ irq_disable_writel
    \/ irq_resume

Next ==
    \/ dwc3_imx8mp_pm_suspend
    \/ dwc3_imx8mp_pm_resume
    \/ dwc3_imx8mp_runtime_suspend
    \/ dwc3_imx8mp_runtime_resume
    \/ PmStep
    \/ \E r \in ClkResults : resume_clk(r)
    \/ IrqStep
    \/ HwWakeEvent
    \/ \E role \in Roles, host \in BOOLEAN : RoleSwitch(role, host)
    \/ SetWakeup

Spec == Init /\ [][Next]_vars

TypeOK ==
    /\ pm_suspended \in BOOLEAN
    /\ bus_clk \in 0..1
    /\ sleep_clk = 1
    /\ irq_wake \in 0..1
    /\ reg \subseteq RegBits
    /\ irq_line \in BOOLEAN
    /\ hw_events \in 0..MaxEvents
    /\ current_dr_role \in Roles
    /\ resume_reqs \in 0..MaxEvents

(***************************************************************************)
(* The outer resume path runs and the clock can be enabled: every started  *)
(* callback and handler run proceeds, a requested resume is eventually     *)
(* started by the PM core, and clk_prepare_enable returns 0.               *)
(***************************************************************************)
ResumeServed ==
    /\ resume_pending
    /\ (dwc3_imx8mp_runtime_resume \/ dwc3_imx8mp_pm_resume)

NextLive ==
    \/ dwc3_imx8mp_pm_suspend
    \/ dwc3_imx8mp_pm_resume
    \/ dwc3_imx8mp_runtime_suspend
    \/ dwc3_imx8mp_runtime_resume
    \/ PmStep
    \/ resume_clk(0)
    \/ IrqStep
    \/ HwWakeEvent
    \/ \E role \in Roles, host \in BOOLEAN : RoleSwitch(role, host)
    \/ SetWakeup

LiveSpec ==
    /\ Init
    /\ [][NextLive]_vars
    /\ WF_vars(PmStep \/ resume_clk(0))
    /\ WF_vars(IrqStep)
    /\ SF_vars(ResumeServed)

(***************************************************************************)
(* The register helpers on their own: any register image, any role, host   *)
(* child present or not; arm once, then disarm.                            *)
(***************************************************************************)
InitReg ==
    /\ pm_suspended = FALSE
    /\ bus_clk = 1
    /\ sleep_clk = 1
    /\ irq_wake = 0
    /\ reg \in SUBSET RegBits
    /\ irq_line = FALSE
    /\ hw_events = 0
    /\ current_dr_role \in Roles
    /\ xhci \in BOOLEAN
    /\ autosuspend = TRUE
    /\ may_wakeup = TRUE
    /\ sys_sleeping = FALSE
    /\ pm_pc = "reg_start"
    /\ pm_op = "none"
    /\ pm_val = {}
    /\ pm_ret = 0
    /\ pm_path = "none"
    /\ pm_reg0 = reg
    /\ pm_irq0 = TRUE
    /\ retry = FALSE
    /\ irq_pc = "idle"
    /\ irq_val = {}
    /\ irq_ret = "none"
    /\ resume_reqs = 0
    /\ resume_target = "none"
    /\ resume_pending = FALSE
    /\ probe_pc = "done"
    /\ error = 0
    /\ probe_ret = 0
    /\ populated = TRUE
    /\ set_role_post_installed = TRUE
    /\ rpm_enabled = TRUE
    /\ clk0 = <<0, 0>>

\* dwc_imx8mp_wakeup_enable, lines 52-64, run without interruption
dwc_imx8mp_wakeup_enable ==
    /\ pm_pc = "reg_start"
    /\ pm_val' = reg
    /\ writel(wakeup_enable_val(reg, current_dr_role, xhci))
    /\ pm_pc' = "reg_armed"
    /\ UNCHANGED <<pm_op, pm_ret, pm_path, pm_reg0, pm_irq0, retry>>
    /\ UNCHANGED <<glue, hw_events, child, env, irqv, reqv>>
    /\ UNCHANGED probev

\* dwc_imx8mp_wakeup_disable, lines 69-73, run without interruption
dwc_imx8mp_wakeup_disable ==
    /\ pm_pc = "reg_armed"
    /\ pm_val' = reg
    /\ writel(wakeup_disable_val(reg))
    /\ pm_pc' = "reg_disarmed"
    /\ UNCHANGED <<pm_op, pm_ret, pm_path, pm_reg0, pm_irq0, retry>>
    /\ UNCHANGED <<glue, hw_events, child, env, irqv, reqv>>
    /\ UNCHANGED probev

NextReg ==
    \/ dwc_imx8mp_wakeup_enable
    \/ dwc_imx8mp_wakeup_disable

SpecReg == InitReg /\ [][NextReg]_vars

(***************************************************************************)
(* dwc3_imx8mp_probe, statement by statement.  Every call into the kernel  *)
(* that can fail takes its result from a small set; the clocks may already *)
(* be enabled by other users when probe is entered.                        *)
(***************************************************************************)
MaxOtherUsers == 1     \* enables each clock holds when probe is entered

\* the errno values probe names
EINVAL       == 22
ENOMEM       == 12
ENODEV       == 19
EPROBE_DEFER == 517

\* result of a call that returns a pointer: 0 for a valid one, else PTR_ERR
PtrResults == {0, -ENOMEM, -EPROBE_DEFER}
\* result of a call that returns 0 or a negative errno
IntResults == {0, -EINVAL}
\* result of platform_get_irq: the interrupt number or a negative errno
IrqResults == {1, -ENODEV}

\* what probe never touches
probe_frame == <<pm_suspended, irq_wake, hw, child, sys_sleeping, pmv, irqv, reqv>>

InitProbe ==
    /\ pm_suspended = FALSE
    /\ bus_clk \in 0..MaxOtherUsers
    /\ sleep_clk \in 0..MaxOtherUsers
    /\ irq_wake = 0
    /\ reg = {}
    /\ irq_line = FALSE
    /\ hw_events = 0
    /\ current_dr_role = PRTCAP_NONE
    /\ xhci = FALSE
    /\ autosuspend = TRUE
    /\ may_wakeup = FALSE
    /\ sys_sleeping = FALSE
    /\ pm_pc = "idle"
    /\ pm_op = "none"
    /\ pm_val = {}
    /\ pm_ret = 0
    /\ pm_path = "none"
    /\ pm_reg0 = {}
    /\ pm_irq0 = FALSE
    /\ retry = FALSE
    /\ irq_pc = "idle"
    /\ irq_val = {}
    /\ irq_ret = "none"
    /\ resume_reqs = 0
    /\ resume_target = "none"
    /\ resume_pending = FALSE
    /\ probe_pc = "probe_node"
    /\ error \in {0, -1}
    /\ probe_ret = 0
    /\ populated = FALSE
    /\ set_role_post_installed = FALSE
    /\ rpm_enabled = FALSE
    /\ clk0 = <<bus_clk, sleep_clk>>

\* `return ret;`
ProbeReturn(ret) ==
    /\ probe_pc' = "done"
    /\ probe_ret' = ret

\* a statement that only moves on, or returns r at once
ProbeCheck(next, r) ==
    /\ IF r # 0
       THEN ProbeReturn(r)
       ELSE probe_pc' = next /\ probe_ret' = probe_ret
    /\ UNCHANGED <<bus_clk, sleep_clk, may_wakeup, error, populated,
                   set_role_post_installed, rpm_enabled, clk0, probe_frame>>

\* `goto label;` after error has been given the value e
ProbeGoto(next, label, fail, e) ==
    /\ probe_pc' = IF fail THEN label ELSE next
    /\ error' = e
    /\ UNCHANGED <<bus_clk, sleep_clk, may_wakeup, probe_ret, populated,
                   set_role_post_installed, rpm_enabled, clk0, probe_frame>>

\* lines 128-131
probe_node(present) ==
    /\ probe_pc = "probe_node"
    /\ ProbeCheck("probe_kzalloc", IF present THEN 0 ELSE -EINVAL)

\* lines 133-135
probe_kzalloc(ok) ==
    /\ probe_pc = "probe_kzalloc"
    /\ ProbeCheck("probe_ioremap", IF ok THEN 0 ELSE -ENOMEM)

\* lines 141-143
probe_ioremap(r) ==
    /\ probe_pc = "probe_ioremap"
    /\ ProbeCheck("probe_bus_clk_get", r)

\* lines 145-149
probe_bus_clk_get(r) ==
    /\ probe_pc = "probe_bus_clk_get"
    /\ ProbeCheck("probe_sleep_clk_get", r)

\* lines 151-155
probe_sleep_clk_get(r) ==
    /\ probe_pc = "probe_sleep_clk_get"
    /\ ProbeCheck("probe_bus_clk_enable", r)

\* lines 157-159
probe_bus_clk_enable(r) ==
    /\ probe_pc = "probe_bus_clk_enable"
    /\ error' = r
    /\ bus_clk' = clk_prepare_enable(bus_clk, r)
    /\ IF r # 0
       THEN ProbeReturn(r)
       ELSE probe_pc' = "probe_sleep_clk_enable" /\ probe_ret' = probe_ret
    /\ UNCHANGED <<sleep_clk, may_wakeup, populated, set_role_post_installed,
                   rpm_enabled, clk0, probe_frame>>

\* lines 161-165
probe_sleep_clk_enable(r) ==
    /\ probe_pc = "probe_sleep_clk_enable"
    /\ error' = r
    /\ sleep_clk' = clk_prepare_enable(sleep_clk, r)
    /\ IF r # 0
       THEN /\ bus_clk' = clk_disable_unprepare(bus_clk)
            /\ ProbeReturn(r)
       ELSE /\ bus_clk' = bus_clk
            /\ probe_pc' = "probe_get_irq"
            /\ probe_ret' = probe_ret
    /\ UNCHANGED <<may_wakeup, populated, set_role_post_installed,
                   rpm_enabled, clk0, probe_frame>>

\* lines 167-172: error is assigned only when irq < 0
probe_get_irq(irq) ==
    /\ probe_pc = "probe_get_irq"
    /\ ProbeGoto("probe_request_irq", "disable_clks",
                 irq < 0, IF irq < 0 THEN irq ELSE error)

\* lines 174-180
probe_request_irq(r) ==
    /\ probe_pc = "probe_request_irq"
    /\ ProbeGoto("probe_get_child", "disable_clks", r # 0, r)

\* lines 182-186: error is not assigned on this path
probe_get_child(dwc3_np) ==
    /\ probe_pc = "probe_get_child"
    /\ ProbeGoto("probe_populate", "disable_clks", ~dwc3_np, error)

\* lines 188-192
probe_populate(r) ==
    /\ probe_pc = "probe_populate"
    /\ error' = r
    /\ populated' = (r = 0)
    /\ probe_pc' = IF r # 0 THEN "disable_clks" ELSE "probe_find_device"
    /\ UNCHANGED <<bus_clk, sleep_clk, may_wakeup, probe_ret,
                   set_role_post_installed, rpm_enabled, clk0, probe_frame>>

\* lines 194-199
probe_find_device(found) ==
    /\ probe_pc = "probe_find_device"
    /\ ProbeGoto("probe_get_drvdata", "depopulate",
                 ~found, IF found THEN error ELSE -ENODEV)

\* lines 201-205
probe_get_drvdata(dwc) ==
    /\ probe_pc = "probe_get_drvdata"
    /\ ProbeGoto("probe_priv_data", "depopulate",
                 ~dwc, IF dwc THEN error ELSE -EPROBE_DEFER)

\* lines 207-213
probe_priv_data(ok) ==
    /\ probe_pc = "probe_priv_data"
    /\ error' = IF ok THEN error ELSE -ENOMEM
    /\ set_role_post_installed' = ok
    /\ probe_pc' = IF ok THEN "probe_finish" ELSE "depopulate"
    /\ UNCHANGED <<bus_clk, sleep_clk, may_wakeup, probe_ret, populated,
                   rpm_enabled, clk0, probe_frame>>

\* lines 215-219
probe_finish ==
    /\ probe_pc = "probe_finish"
    /\ may_wakeup' = TRUE
    /\ rpm_enabled' = TRUE
    /\ ProbeReturn(0)
    /\ UNCHANGED <<bus_clk, sleep_clk, error, populated,
                   set_role_post_installed, clk0, probe_frame>>

\* lines 221-222
depopulate ==
    /\ probe_pc = "depopulate"
    /\ populated' = FALSE
    /\ probe_pc' = "disable_clks"
    /\ UNCHANGED <<bus_clk, sleep_clk, may_wakeup, error, probe_ret,
                   set_role_post_installed, rpm_enabled, clk0, probe_frame>>

\* lines 223-227
disable_clks ==
    /\ probe_pc = "disable_clks"
    /\ bus_clk' = clk_disable_unprepare(bus_clk)
    /\ sleep_clk' = clk_disable_unprepare(sleep_clk)
    /\ ProbeReturn(error)
    /\ UNCHANGED <<may_wakeup, error, populated, set_role_post_installed,
                   rpm_enabled, clk0, probe_frame>>

NextProbe ==
    \/ \E present \in BOOLEAN : probe_node(present)
    \/ \E ok \in BOOLEAN : probe_kzalloc(ok)
    \/ \E r \in PtrResults : probe_ioremap(r)
    \/ \E r \in PtrResults : probe_bus_clk_get(r)
    \/ \E r \in PtrResults : probe_sleep_clk_get(r)
    \/ \E r \in ClkResults : probe_bus_clk_enable(r)
    \/ \E r \in ClkResults : probe_sleep_clk_enable(r)
    \/ \E irq \in IrqResults : probe_get_irq(irq)
    \/ \E r \in IntResults : probe_request_irq(r)
    \/ \E dwc3_np \in BOOLEAN : probe_get_child(dwc3_np)
    \/ \E r \in IntResults : probe_populate(r)
    \/ \E found \in BOOLEAN : probe_find_device(found)
    \/ \E dwc \in BOOLEAN : probe_get_drvdata(dwc)
    \/ \E ok \in BOOLEAN : probe_priv_data(ok)
    \/ probe_finish
    \/ depopulate
    \/ disable_clks

SpecProbe == InitProbe /\ [][NextProbe]_vars

(***************************************************************************)
(* Properties.                                                             *)
(***************************************************************************)
\* the PM context / the handler takes a step
PmMoves  == pm_pc' # pm_pc
IrqMoves == irq_pc' # irq_pc

\* what suspend and resume are observed by: register, bus clock, flag
LowPowerStateKept ==
    /\ reg' = reg
    /\ bus_clk' = bus_clk
    /\ pm_suspended' = pm_suspended

\* C1: enterLowPower is idempotent.  A suspend callback (system sleep or
\* runtime) that is entered while pm_suspended is already true returns 0,
\* and none of its steps changes the wakeup register, the bus clock or the
\* flag, whatever the role and the wake capability.
C1_EnterLowPowerIdempotent ==
    [][ /\ (pm_pc = "idle" /\ pm_pc' = "susp_check" /\ pm_suspended)
            => LowPowerStateKept
        /\ (pm_pc = "susp_check" /\ pm_suspended /\ PmMoves)
            => (pm_pc' = "idle" /\ pm_ret' = 0 /\ LowPowerStateKept)
      ]_vars

\* a runtime suspend found the glue suspended, host role, wake capability off
C1_Witness ==
    /\ pm_pc = "idle"
    /\ pm_op = "runtime_suspend"
    /\ pm_path = "noop"
    /\ pm_suspended
    /\ current_dr_role = DWC3_GCTL_PRTCAP_HOST
    /\ ~may_wakeup

\* C2: exitLowPower is idempotent.  A resume callback that is entered while
\* pm_suspended is already false returns without enabling the bus clock and
\* without writing the register; the flag stays false.
C2_ExitLowPowerIdempotent ==
    [][ /\ (pm_pc = "idle" /\ pm_pc' = "res_check" /\ ~pm_suspended)
            => LowPowerStateKept
        /\ (pm_pc = "res_check" /\ ~pm_suspended /\ PmMoves)
            => (pm_pc' = "idle" /\ pm_ret' = 0 /\ LowPowerStateKept)
      ]_vars

\* a system resume found the glue already active
C2_Witness ==
    /\ pm_pc = "idle"
    /\ pm_op = "pm_resume"
    /\ pm_path = "noop"
    /\ ~pm_suspended
    /\ bus_clk = 1

\* C5: spurious-event safety.  A handler run that reads pm_suspended = false
\* returns IRQ_HANDLED without writing the register and without requesting
\* a resume.
C5_SpuriousEventSafe ==
    [][ (irq_pc = "irq_check" /\ ~pm_suspended /\ IrqMoves)
            => /\ irq_pc' = "idle"
               /\ irq_ret' = IRQ_HANDLED
               /\ reg' = reg
               /\ irq_line' = irq_line
               /\ UNCHANGED reqv
      ]_vars

\* the handler ran with the line asserted and the glue not (yet) suspended
C5_Witness ==
    /\ irq_pc = "idle"
    /\ irq_ret = IRQ_HANDLED
    /\ irq_line
    /\ ~pm_suspended
    /\ resume_reqs = 0

\* C6: race with resume.  However the handler's steps interleave with the
\* PM context, no more resume requests are issued than physical wakeup
\* events were raised, and once both contexts are idle pm_suspended is the
\* outcome of the last completed transition (false after a resume).
C6_ResumeRace ==
    /\ resume_reqs <= hw_events
    /\ (pm_pc = "idle" /\ irq_pc = "idle" /\ pm_op \in ResumeOps)
           => ~pm_suspended
    /\ (pm_pc = "idle" /\ irq_pc = "idle" /\ pm_op \in SuspendOps)
           => pm_suspended

\* a resume that was entered while the handler was running has completed,
\* and the request the handler issued meanwhile is still outstanding
C6_Witness ==
    /\ pm_pc = "idle"
    /\ irq_pc = "idle"
    /\ pm_op \in ResumeOps
    /\ pm_path = "full"
    /\ ~pm_irq0
    /\ resume_pending
    /\ resume_reqs = 1
    /\ hw_events = 1
    /\ ~pm_suspended

\* the bits the specification assigns to each role
HostBits   == USB_WAKEUP_EN \cup USB_WAKEUP_SS_CONN
                  \cup USB_WAKEUP_U3_EN \cup USB_WAKEUP_DPDM_EN
DeviceBits == USB_WAKEUP_EN \cup USB_WAKEUP_VBUS_EN
                  \cup USB_WAKEUP_VBUS_SRC_SESS_VAL
RoleBits(role) ==
    CASE role = DWC3_GCTL_PRTCAP_HOST   -> HostBits
      [] role = DWC3_GCTL_PRTCAP_DEVICE -> DeviceBits
      [] OTHER                          -> {}

\* C3: the bits arm sets are determined by the role alone.  Applied to a
\* quiescent register, arm yields HostBits for role Host, DeviceBits for
\* role Device, and for role None it leaves the register as it was; with
\* or without a host child.
C3_ArmByRoleAlone ==
    pm_pc = "reg_armed" =>
        /\ (pm_reg0 = {} => reg = RoleBits(current_dr_role))
        /\ (current_dr_role = PRTCAP_NONE => reg = pm_reg0)

\* C4: round trip.  arm followed at once by disarm leaves global enable and
\* all six source bits clear, for every role; from a quiescent register the
\* result is the all-zero image.
C4_ArmDisarmRoundTrip ==
    pm_pc = "reg_disarmed" =>
        /\ reg \cap WakeBits = {}
        /\ (pm_reg0 \cap WakeBits = {} => reg = pm_reg0)

\* arm set the host bits in a quiescent register and disarm cleared them
C4_Witness ==
    /\ pm_pc = "reg_disarmed"
    /\ pm_reg0 = {}
    /\ pm_val = HostBits
    /\ current_dr_role = DWC3_GCTL_PRTCAP_HOST
    /\ reg = {}

\* C7: scenario 1.  A system-sleep suspend that starts with the glue active,
\* the register quiescent, the handler idle, role Device and the wake
\* capability enabled ends with the register showing exactly DeviceBits,
\* the bus clock disabled and pm_suspended true.
C7_Scenario1 ==
    [][ ( /\ pm_pc = "susp_flag"
          /\ PmMoves
          /\ pm_op = "pm_suspend"
          /\ pm_reg0 = {}
          /\ pm_irq0
          /\ current_dr_role = DWC3_GCTL_PRTCAP_DEVICE
          /\ may_wakeup )
        => ( /\ pm_pc' = "idle"
             /\ reg' = DeviceBits
             /\ bus_clk' = 0
             /\ pm_suspended' )
      ]_vars

\* C8: scenario 2.  A handler run that finds the glue suspended clears the
\* wakeup bits of the register and, with role Device, requests a resume of
\* the peripheral; and from the suspended, armed state with the line
\* asserted the glue eventually is active again with the bus clock enabled.
C8_Scenario2 ==
    /\ [][ /\ (irq_pc = "irq_dis_write" /\ IrqMoves)
               => reg' \cap WakeBits = {}
           /\ ( /\ irq_pc = "irq_resume"
                /\ IrqMoves
                /\ current_dr_role = DWC3_GCTL_PRTCAP_DEVICE )
               => ( /\ resume_reqs' = resume_reqs + 1
                    /\ resume_target' = "gadget"
                    /\ resume_pending' )
         ]_vars
    /\ ( ( /\ pm_suspended
           /\ pm_pc = "idle"
           /\ irq_pc = "idle"
           /\ current_dr_role = DWC3_GCTL_PRTCAP_DEVICE
           /\ USB_WAKEUP_EN \subseteq reg
           /\ irq_line )
         ~> (~pm_suspended /\ bus_clk = 1) )

\* the handler requested a resume of the peripheral, the resume was served
\* and went through: the glue is active, clocked and disarmed
C8_Witness ==
    /\ pm_pc = "idle"
    /\ irq_pc = "idle"
    /\ pm_op \in ResumeOps
    /\ pm_path = "full"
    /\ resume_target = "gadget"
    /\ resume_reqs = 1
    /\ ~resume_pending
    /\ current_dr_role = DWC3_GCTL_PRTCAP_DEVICE
    /\ ~pm_suspended
    /\ bus_clk = 1
    /\ reg = {}

\* C9: role-change policy.  A role-change notification leaves the child's
\* autosuspend policy disabled for Host, enabled for Device and as it was
\* for any other role, and touches neither the flag, the clocks nor the
\* register; and no runtime suspend runs while the policy is disabled.
C9_RoleChangePolicy ==
    [][ /\ (child' # child)
            => /\ autosuspend' =
                    ( CASE current_dr_role' = DWC3_GCTL_PRTCAP_HOST   -> FALSE
                        [] current_dr_role' = DWC3_GCTL_PRTCAP_DEVICE -> TRUE
                        [] OTHER -> autosuspend )
               /\ UNCHANGED <<pm_suspended, bus_clk, sleep_clk, reg>>
        /\ (pm_pc' # "idle" /\ pm_op' = "runtime_suspend") => autosuspend'
      ]_vars

\* Device became Host while active: the policy is disabled
C9_Witness ==
    /\ current_dr_role = DWC3_GCTL_PRTCAP_HOST
    /\ ~autosuspend
    /\ ~pm_suspended
    /\ pm_op = "runtime_resume"
    /\ pm_pc = "idle"

\* C10: resume failure semantics.  When clk_prepare_enable fails in resume
\* the callback returns that error and pm_suspended is left false; and a
\* retry of the resume that reports success has the bus clock enabled.
C10_ResumeFailureRetry ==
    [][ /\ (pm_pc = "res_clk" /\ PmMoves /\ bus_clk' = bus_clk)
            => (pm_ret' # 0 /\ ~pm_suspended')
        /\ (pm_pc = "dis_write" /\ PmMoves)
            => (pm_pc' = "idle" /\ pm_ret' = pm_ret /\ ~pm_suspended')
        /\ (retry /\ PmMoves /\ pm_pc' = "idle" /\ pm_ret' = 0)
            => bus_clk' > 0
      ]_vars

\* C11: dispatcher routing.  A handler run that reads pm_suspended = true
\* goes on to the disarm (before any request), then issues at most one
\* resume request: for the host child iff the role is Host and a host child
\* exists, for the peripheral iff the role is Device, none otherwise.  No
\* handler step changes pm_suspended.
C11_DispatcherRouting ==
    [][ /\ (irq_pc = "irq_check" /\ pm_suspended /\ IrqMoves)
            => (irq_pc' = "irq_dis_read" /\ UNCHANGED <<reg, reqv>>)
        /\ (irq_pc = "irq_dis_read" /\ IrqMoves)
            => (irq_pc' = "irq_dis_write" /\ UNCHANGED <<reg, reqv>>)
        /\ (irq_pc = "irq_dis_write" /\ IrqMoves)
            => ( /\ irq_pc' = "irq_resume"
                 /\ reg' \cap WakeBits = {}
                 /\ UNCHANGED reqv )
        /\ (irq_pc = "irq_resume" /\ IrqMoves)
            => ( /\ irq_pc' = "idle"
                 /\ reg' = reg
                 /\ IF current_dr_role = DWC3_GCTL_PRTCAP_HOST /\ xhci
                    THEN resume_reqs' = resume_reqs + 1 /\ resume_target' = "xhci"
                    ELSE IF current_dr_role = DWC3_GCTL_PRTCAP_DEVICE
                    THEN resume_reqs' = resume_reqs + 1 /\ resume_target' = "gadget"
                    ELSE UNCHANGED reqv )
        /\ IrqMoves => pm_suspended' = pm_suspended
      ]_vars

\* the handler found the glue suspended in role Host with a host child: it
\* disarmed, asked for the host child, and the glue is still suspended
C11_Witness ==
    /\ irq_pc = "idle"
    /\ irq_ret = IRQ_HANDLED
    /\ pm_pc = "idle"
    /\ pm_op \in SuspendOps
    /\ pm_suspended
    /\ current_dr_role = DWC3_GCTL_PRTCAP_HOST
    /\ xhci
    /\ reg \cap WakeBits = {}
    /\ resume_target = "xhci"
    /\ resume_reqs = 1
    /\ resume_pending

\* C12: wakeup-desired rule.  A suspend that finds pm_suspended = false goes
\* through the arm (read, then a write that sets global enable whenever the
\* child has something to wake on) iff it is a runtime suspend or the wake
\* capability is enabled; a system-sleep suspend with the capability
\* disabled writes nothing to the register.  Either way it ends with the
\* bus clock disabled and pm_suspended = true.
C12_WakeupDesiredRule ==
    [][ /\ (pm_pc = "susp_check" /\ ~pm_suspended /\ PmMoves)
            => pm_pc' = IF pm_op = "runtime_suspend" \/ may_wakeup
                        THEN "arm_read" ELSE "susp_clk"
        /\ (pm_pc = "arm_read" /\ PmMoves)
            => (pm_pc' = "arm_write" /\ pm_val' = reg)
        /\ (pm_pc = "arm_write" /\ PmMoves)
            => ( /\ pm_pc' = "susp_clk"
                 /\ pm_val \subseteq reg'
                 /\ (xhci \/ current_dr_role = DWC3_GCTL_PRTCAP_DEVICE)
                        => USB_WAKEUP_EN \subseteq reg' )
        /\ (pm_op' = "pm_suspend" /\ ~may_wakeup /\ PmMoves)
            => (reg' = reg /\ pm_pc' \notin {"arm_read", "arm_write"})
        /\ (pm_pc = "susp_clk" /\ PmMoves)
            => (pm_pc' = "susp_flag" /\ bus_clk' = 0)
        /\ (pm_pc = "susp_flag" /\ PmMoves)
            => (pm_pc' = "idle" /\ bus_clk' = 0 /\ pm_suspended')
      ]_vars

\* a runtime suspend armed the register although the wake capability is off
C12_Witness ==
    /\ pm_pc = "idle"
    /\ pm_op = "runtime_suspend"
    /\ pm_path = "full"
    /\ ~may_wakeup
    /\ current_dr_role = DWC3_GCTL_PRTCAP_DEVICE
    /\ reg = DeviceBits
    /\ bus_clk = 0
    /\ pm_suspended

\* C13: whenever pm_suspended is true the bus clock is disabled.
C13_SuspendedImpliesClockOff ==
    pm_suspended => bus_clk = 0

\* the flag is still set while a resume is being entered and the handler
\* has already passed its check
C13_Witness ==
    /\ pm_suspended
    /\ bus_clk = 0
    /\ pm_pc = "res_check"
    /\ pm_op \in ResumeOps
    /\ irq_pc = "irq_dis_read"

\* C14: arm-before-release ordering.  Within a suspend the arm write comes
\* first, then the bus clock release, then pm_suspended := true, so the
\* register write of a suspend happens while the bus clock is enabled.
C14_ArmBeforeRelease ==
    [][ /\ (pm_pc = "arm_write" /\ PmMoves)
            => (bus_clk > 0 /\ pm_pc' = "susp_clk" /\ ~pm_suspended')
        /\ (pm_pc = "susp_clk" /\ PmMoves)
            => (pm_pc' = "susp_flag" /\ reg' = reg /\ ~pm_suspended')
        /\ (pm_pc = "susp_flag" /\ PmMoves)
            => (bus_clk = 0 /\ reg' = reg /\ pm_suspended')
      ]_vars

\* C15: register-image invariant.  In every reachable state, whatever the
\* interleaving of the non-atomic arms and disarms of suspend, resume and
\* the handler, a set wakeup source bit implies the global enable bit is
\* set (equivalently: global enable clear implies all source bits clear).
C15_RegisterImage ==
    /\ (reg \cap USB_WAKEUP_EN_MASK # {}) => (USB_WAKEUP_EN \subseteq reg)
    /\ (reg \cap USB_WAKEUP_EN = {}) => (reg \cap USB_WAKEUP_EN_MASK = {})

\* the handler is between its read and its write of the register while a
\* suspend has armed and not yet released the clock
C15_Witness ==
    /\ pm_pc = "susp_clk"
    /\ irq_pc = "irq_dis_write"
    /\ reg = HostBits
    /\ irq_val = {}

\* C16: serialization.  While the handler is between its check of
\* pm_suspended and the write that ends its read-modify-write of the
\* register, the PM context neither writes pm_suspended nor is inside a
\* read-modify-write of the register of its own.
C16_Serialized ==
    [][ (irq_pc = "irq_dis_read" \/ irq_pc = "irq_dis_write")
            => (pm_pc \notin {"arm_write", "dis_write"}
                    /\ pm_suspended' = pm_suspended) ]_vars

\* C17: line-level wake arming belongs to the system-sleep path only.  No
\* step of a runtime suspend or resume, and no step other than the entry
\* of a system-sleep callback, changes the wake depth of the line; the
\* system-sleep suspend adds one iff the wake capability is enabled, the
\* system-sleep resume removes one iff it is enabled and never from depth
\* zero, and outside a suspend/resume pair the depth is back at its value
\* before the pair.
C17_IrqWakeSystemSleepOnly ==
    [][ /\ (irq_wake' # irq_wake)
            => (pm_pc = "idle" /\ pm_pc' # "idle"
                /\ (pm_op' = "pm_suspend" \/ pm_op' = "pm_resume"))
        /\ (pm_pc = "idle" /\ pm_pc' # "idle" /\ pm_op' = "pm_suspend")
            => irq_wake' = (IF may_wakeup THEN irq_wake + 1 ELSE irq_wake)
        /\ (pm_pc = "idle" /\ pm_pc' # "idle" /\ pm_op' = "pm_resume")
            => IF may_wakeup
               THEN irq_wake > 0 /\ irq_wake' = irq_wake - 1
               ELSE irq_wake' = irq_wake
        /\ irq_wake' >= 0
        /\ ~sys_sleeping' => irq_wake' = 0
      ]_vars

\* a system-sleep pair with the wake capability enabled has completed
C17_Witness ==
    /\ pm_pc = "idle"
    /\ pm_op = "pm_resume"
    /\ pm_path = "full"
    /\ may_wakeup
    /\ ~sys_sleeping
    /\ irq_wake = 0

\* C18: clock balance.  The bus clock is disabled only while enabled and
\* enabled only while disabled, so its enable count stays in {0, 1}; the
\* sleep clock stays enabled and no suspend or resume step touches it.
C18_ClockBalance ==
    [][ /\ (pm_pc = "susp_clk" /\ PmMoves) => bus_clk > 0
        /\ (pm_pc = "res_clk" /\ PmMoves) => bus_clk = 0
        /\ bus_clk' = 0 \/ bus_clk' = 1
        /\ sleep_clk' = sleep_clk
        /\ sleep_clk = 1
      ]_vars

\* C19 as stated: every write of the wakeup control register (the arm of
\* a suspend, the disarm of a resume, the disarm of the handler) is done
\* in a state where the bus clock is enabled.
C19_WritesWithClockLive ==
    [][ /\ (pm_pc = "arm_write" /\ PmMoves) => bus_clk > 0
        /\ (pm_pc = "dis_write" /\ PmMoves) => bus_clk > 0
        /\ (irq_pc = "irq_dis_write" /\ IrqMoves) => bus_clk > 0
      ]_vars

\* C19: register writes and the bus clock.  The handler starts its disarm
\* only from a state with pm_suspended set, in which the bus clock is
\* disabled; the disarm of a resume is written whether or not the clock
\* enable succeeded, with the bus clock enabled exactly when it succeeded;
\* the arm of a suspend is written before that call releases the clock.
C19_WritesAndClock ==
    [][ /\ (irq_pc = "irq_check" /\ IrqMoves /\ irq_pc' = "irq_dis_read")
            => (pm_suspended /\ bus_clk = 0)
        /\ (irq_pc = "irq_dis_write" /\ IrqMoves)
            => (reg' = wakeup_disable_val(irq_val) /\ bus_clk' = bus_clk)
        /\ (pm_pc = "res_clk" /\ PmMoves) => pm_pc' = "dis_read"
        /\ (pm_pc = "dis_read" /\ PmMoves) => pm_pc' = "dis_write"
        /\ (pm_pc = "dis_write" /\ PmMoves)
            => ( /\ reg' = wakeup_disable_val(pm_val)
                 /\ (bus_clk > 0) <=> (pm_ret = 0) )
        /\ (pm_pc = "arm_write" /\ PmMoves)
            => (pm_pc' = "susp_clk" /\ bus_clk' = bus_clk)
      ]_vars

\* the handler has disarmed the register of a suspended glue whose bus
\* clock is off
C19_Witness ==
    /\ irq_pc = "irq_resume"
    /\ pm_pc = "idle"
    /\ pm_suspended
    /\ bus_clk = 0
    /\ reg \cap WakeBits = {}
    /\ pm_reg0 \cap WakeBits = {}
    /\ hw_events > 0

\* the wakeup line is asserted after a suspend has armed the register (the
\* call is past its arm, or has completed) and the role has a child to wake
WakeupAfterArm ==
    /\ irq_line
    /\ USB_WAKEUP_EN \subseteq reg
    /\ pm_op \in SuspendOps
    /\ \/ pm_pc = "susp_clk"
       \/ pm_pc = "susp_flag"
       \/ pm_pc = "idle" /\ pm_suspended
    /\ \/ current_dr_role = DWC3_GCTL_PRTCAP_DEVICE
       \/ current_dr_role = DWC3_GCTL_PRTCAP_HOST /\ xhci

\* C20 as stated: a wakeup line asserted after the arm of a suspend, with a
\* matching child, is eventually followed by a handler run that issues a
\* resume request.
C20_NoLostWakeup ==
    \A n \in 0..MaxEvents :
        (WakeupAfterArm /\ resume_reqs = n) ~> (resume_reqs > n)

\* C20: no lost wakeup.  A wakeup line asserted after the arm of a suspend,
\* with a matching child, is eventually followed either by a handler run
\* that issues a resume request or by a resume started by the PM core on
\* its own, which leaves the suspended state without a request.
C20_WakeupServedOrResumed ==
    \A n \in 0..MaxEvents :
        (WakeupAfterArm /\ resume_reqs = n)
            ~> (resume_reqs > n \/ (pm_op \in ResumeOps /\ ~pm_suspended))

\* the line asserted in the window between the arm and the setting of the
\* flag, and a handler run has already returned without disarming
C20_Witness ==
    /\ WakeupAfterArm
    /\ pm_pc = "susp_flag"
    /\ ~pm_suspended
    /\ irq_pc = "idle"
    /\ irq_ret = IRQ_HANDLED
    /\ resume_reqs = 0
    /\ hw_events = 1

\* probe has returned through one of its failure paths
ProbeFailed == probe_pc = "done" /\ ~rpm_enabled

\* C21: attach failure handling.  A probe that ends on a failure path has
\* returned a non-zero error and left both clocks with the enable counts
\* they had on entry; a probe that returned 0 has installed the role hook
\* and enabled runtime PM, with both clocks enabled.
C21_AttachFailureHandling ==
    /\ ProbeFailed
        => (probe_ret # 0 /\ bus_clk = clk0[1] /\ sleep_clk = clk0[2])
    /\ (probe_pc = "done" /\ probe_ret = 0)
        => ( /\ set_role_post_installed
             /\ rpm_enabled
             /\ bus_clk = clk0[1] + 1
             /\ sleep_clk = clk0[2] + 1 )
====
